---- MODULE Spec2Model ----
(***************************************************************************)
(* Model of storage/quarry/quarry_lvm.py: the reconciliation of one LVM    *)
(* volume and of its iSCSI export (main, handle_connection and the         *)
(* LvmVolume methods).  The LVM volume group and the kernel target         *)
(* configuration (configfs, reached through rtslib) are the state; one     *)
(* run of the module is one action, except in SpecConc, where the calls    *)
(* of two add_connection runs interleave.                                  *)
(***************************************************************************)
EXTENDS Integers, Sequences, FiniteSets, TLC

\* ------------------------------------------------------------------ bounds
NumVols == 2
NumInit == 2

\* volume_id values (opaque keys) and initiator iqns (opaque keys)
Vols == 1..NumVols
Initiators == 1..NumInit
\* mod.params['initiator'] is None
NoInitiator == 0
\* CHAP userid / password values; "" is what rtslib reads from an ACL whose
\* attribute was never set.  Only equality of credentials is ever used.
Userids == {"", "u1"}
Passwords == {"", "p1"}
\* The (userid, password) pairs a run is given: none, a userid alone, both
Credentials == {<<"", "">>, <<"u1", "">>, <<"u1", "p1">>}
\* mod.params['volume_size'] and mod.params['volume_ancestor']: None, or a size
\* in bytes, or the volume_id of the volume to take a snapshot of
NoSize == 0
NoAncestor == 0
Sizes == {NoSize, 1}
Ancestors == {NoAncestor} \cup Vols

\* ------------------------------------------------------------------- state
VARIABLES
    lvm,    \* [vols]: the logical volumes of QUARRY_VG.  Whether a volume is
            \* activated is not kept: the module never reads it (lvchange
            \* is a call of the log, and fails on a volume that is missing)
    cfs,    \* the target configuration rtslib reads and writes (see EmptyCfs)
    result, \* what the last run reported: [outcome, changed, cmd]
    retry,  \* the add_connection call cut short by a failure and not yet
            \* re-invoked: [phase, vol_id, initiator, userid, password]
    calls   \* the add_connection calls that run at the same time, by volume:
            \* [pc, a, f] the next step, the arguments and the locals

vars == <<lvm, cfs, result, retry, calls>>

\* Identity of a target: 0 is a target of another tool (no 'quarry' in its wwn),
\* a positive number n is the n-th generated iqn.2016-10.com.ansible.quarry:<n>.
ForeignTarget == 0
IsQuarry(t) == t # ForeignTarget

\* targets : the iscsi fabric's targets
\* tpgs    : the targets that own TPG 1
\* enabled : the targets whose TPG 1 is enabled
\* portals : the targets whose TPG 1 has the portal 0.0.0.0:3260
\* stores  : names of the registered block storage objects
\* luns    : [tgt, lun, so]   LUN number lun of tgt's TPG exports store so
\* acls    : [tgt, wwn, userid, password]   node ACLs of tgt's TPG
\* mapped  : [tgt, wwn, mapped_lun, tpg_lun]   mapped LUNs of the ACL wwn
EmptyCfs ==
    [targets |-> {}, tpgs |-> {}, enabled |-> {}, portals |-> {},
     stores |-> {}, luns |-> {}, acls |-> {}, mapped |-> {}]

ForeignCfs ==
    [EmptyCfs EXCEPT !.targets = {ForeignTarget}, !.tpgs = {ForeignTarget},
                     !.enabled = {ForeignTarget}, !.portals = {ForeignTarget}]

\* ------------------------------------------------------------ list helpers
SetMin(S) == CHOOSE x \in S : \A y \in S : x <= y
SetMax(S) == CHOOSE x \in S : \A y \in S : y <= x

\* list(storage.attached_luns): the LUNs, of any target, that export the store
attached_luns(c, so) == {l \in c.luns : l.so = so}

\* list(lun.mapped_luns): the mapped LUNs, of any ACL of the LUN's TPG, that
\* refer to the LUN
lun_mapped_luns(c, l) == {m \in c.mapped : m.tgt = l.tgt /\ m.tpg_lun = l.lun}

\* list(tpg.luns), list(tpg.node_acls), list(node_acl.mapped_luns)
tpg_luns(c, t) == {l \in c.luns : l.tgt = t}
tpg_node_acls(c, t) == {a \in c.acls : a.tgt = t}
acl_mapped_luns(c, t, wwn) == {m \in c.mapped : m.tgt = t /\ m.wwn = wwn}

\* xs[0] of a Python list holding the elements of S: IndexError on an empty
\* list; the order of a list with several elements is the subsystem's
\* enumeration order, taken here as the ascending one
LunKey(l) == l.tgt * 1000 + l.lun
MappedKey(m) == m.wwn * 1000 + m.mapped_lun

\* list(storage.attached_luns)[0], luns[0]
first_lun(S) ==
    IF S = {} THEN [exc |-> "IndexError"]
    ELSE [exc |-> "",
          val |-> CHOOSE x \in S : \A y \in S : LunKey(x) <= LunKey(y)]

\* mapped_luns[0]
first_mapped_lun(S) ==
    IF S = {} THEN [exc |-> "IndexError"]
    ELSE [exc |-> "",
          val |-> CHOOSE x \in S : \A y \in S : MappedKey(x) <= MappedKey(y)]

\* connection_exists with a fault: 'if luns:' in place of 'if len(luns) == 1:',
\* so that a store on several LUNs is judged by the first of them
connection_exists_any_lun(c, vol_id, initiator) ==
    IF vol_id \notin c.stores
    THEN [ret |-> FALSE, exc |-> ""]
    ELSE LET luns == attached_luns(c, vol_id) IN
         IF Cardinality(luns) >= 1
         THEN LET l0 == first_lun(luns) IN
              IF l0.exc # "" THEN [ret |-> FALSE, exc |-> l0.exc]
              ELSE LET mapped_luns == lun_mapped_luns(c, l0.val) IN
                   IF Cardinality(mapped_luns) = 1
                   THEN LET m0 == first_mapped_lun(mapped_luns) IN
                        IF m0.exc # "" THEN [ret |-> FALSE, exc |-> m0.exc]
                        ELSE [ret |-> (m0.val.wwn = initiator), exc |-> ""]
                   ELSE [ret |-> FALSE, exc |-> ""]
         ELSE [ret |-> FALSE, exc |-> ""]

\* --------------------------------------------------- LvmVolume.connection_exists
\* [ret, exc]: the value returned, and the exception raised ("" when none)
connection_exists(c, vol_id, initiator) ==
    IF vol_id \notin c.stores
    THEN [ret |-> FALSE, exc |-> ""]                \* RTSLibNotInCFS: pass
    ELSE LET luns == attached_luns(c, vol_id) IN
         IF Cardinality(luns) = 1
         THEN LET l0 == first_lun(luns) IN
              IF l0.exc # "" THEN [ret |-> FALSE, exc |-> l0.exc]
              ELSE LET mapped_luns == lun_mapped_luns(c, l0.val) IN
                   IF Cardinality(mapped_luns) = 1
                   THEN LET m0 == first_mapped_lun(mapped_luns) IN
                        IF m0.exc # "" THEN [ret |-> FALSE, exc |-> m0.exc]
                        ELSE [ret |-> (m0.val.wwn = initiator), exc |-> ""]
                   ELSE [ret |-> FALSE, exc |-> ""]
         ELSE [ret |-> FALSE, exc |-> ""]

\* storage.delete(): the store goes, with every LUN attached to it and every
\* mapped LUN that refers to one of those LUNs
storage_delete(c, so) ==
    LET gone == attached_luns(c, so) IN
    [c EXCEPT !.stores = @ \ {so},
              !.luns = @ \ gone,
              !.mapped = {m \in @ : ~\E l \in gone :
                              l.tgt = m.tgt /\ l.lun = m.tpg_lun}]

\* Position of the first occurrence of a call in a log (0: not in the log)
Pos(log, call) ==
    IF \E n \in 1..Len(log) : log[n] = call
    THEN SetMin({n \in 1..Len(log) : log[n] = call})
    ELSE 0

\* ------------------------------------------------------------------ frames
\* The locals of one run of main and of the LvmVolume method it is in:
\*   final      final_result['changed']
\*   changed    the method's local 'changed'
\*   err        "" while running; else how the run ended early
\*              ("CommandFailure", "fail_json", "IndexError", "RTSLibError",
\*               "Aborted")
\*   log        the calls issued so far, in order
\*   target     add_connection's target (NoTarget: None); its TPG is TPG 1
\*   newTarget  the target was created by this call (inside 'if not target')
\*   newStore   the storage object was created by this call (the except branch)
\*   lun_idx    add_connection's lun_idx (NoLun: not yet bound)
\*   lunsBefore the LUN numbers in use in the TPG when lun_idx was computed
\*   credDiff   the condition of the credentials 'if'
\*   failCmd    the external command that exits non-zero in this run ("": none)
\*   lvcreate   the arguments of the lvcreate command the run issued:
\*              -L <L>b -n <n>, then -s QUARRY_VG/<s> or (s = NoAncestor)
\*              QUARRY_VG alone; NoCommand when it issued none
NoTarget == -1
NoLun == -1

NoCommand == [L |-> NoSize, n |-> 0, s |-> NoAncestor]

Frame(l, c, failCmd) ==
    [lvm |-> l, cfs |-> c, final |-> FALSE, changed |-> FALSE, err |-> "",
     log |-> <<>>, target |-> NoTarget, newTarget |-> FALSE,
     newStore |-> FALSE, lun_idx |-> NoLun, lunsBefore |-> {},
     credDiff |-> FALSE, failCmd |-> failCmd, lvcreate |-> NoCommand]

Logged(f, call) == [f EXCEPT !.log = Append(@, call)]

\* Cmd with a fault: the exit status is not looked at; the run goes on after
\* a command that failed, without the command's effect
Cmd_unchecked(f, name, ok, g) ==
    IF f.failCmd = name \/ ~ok THEN Logged(f, name) ELSE Logged(g, name)

\* LvmVolume._cmd: run_command, CommandFailure when rc != 0.  g is the frame
\* after the command's effect.
Cmd(f, name, ok, g) ==
    IF f.failCmd = name \/ ~ok
    THEN [Logged(f, name) EXCEPT !.err = "CommandFailure"]
    ELSE Logged(g, name)

\* -------------------------------------------------- LvmVolume.add_connection
\* a = [vol_id, initiator, userid, password]

\* changed = False; lvchange -ay (fails on a volume that is not in the group)
ac_activate(f, a) ==
    Cmd([f EXCEPT !.changed = FALSE], "lvchange", a.vol_id \in f.lvm.vols,
        [f EXCEPT !.changed = FALSE])

\* ac_scan_targets with a fault: the 'break' leaves the loop after the first
\* target of the fabric, whatever its wwn
ac_scan_first_only(f, a) ==
    IF f.cfs.targets = {} THEN f
    ELSE LET t == SetMin(f.cfs.targets) IN
         IF ~IsQuarry(t) THEN f
         ELSE IF t \in f.cfs.tpgs THEN [f EXCEPT !.target = t]
         ELSE [f EXCEPT !.target = t, !.err = "IndexError"]

\* for t in fabric.targets: if 'quarry' in t.wwn: ... list(target.tpgs)[0]
ac_scan_targets(f, a) ==
    LET found == {t \in f.cfs.targets : IsQuarry(t)} IN
    IF found = {} THEN f
    ELSE LET t == SetMin(found) IN
         IF t \in f.cfs.tpgs THEN [f EXCEPT !.target = t]
         ELSE [f EXCEPT !.target = t, !.err = "IndexError"]

\* generate_wwn: a name no target has; rtslib.Target(fabric, wwn=iqn)
ac_new_target(f, a) ==
    IF f.target # NoTarget THEN f
    ELSE LET t == SetMax(f.cfs.targets \cup {ForeignTarget}) + 1 IN
         Logged([f EXCEPT !.cfs.targets = @ \cup {t}, !.target = t,
                          !.newTarget = TRUE], "Target")

\* rtslib.TPG(target, 1): a new TPG of the iscsi fabric is disabled
ac_new_tpg(f, a) ==
    IF ~f.newTarget THEN f
    ELSE Logged([f EXCEPT !.cfs.tpgs = @ \cup {f.target}], "TPG")

\* rtslib.NetworkPortal(tpg, "0.0.0.0", "3260"); changed = True
ac_new_portal(f, a) ==
    IF ~f.newTarget THEN f
    ELSE Logged([f EXCEPT !.cfs.portals = @ \cup {f.target},
                          !.changed = TRUE], "NetworkPortal")

\* ac_enable with a fault: the TPG is enabled, and changed set, without looking
\* at tpg.enable first
ac_enable_always(f, a) ==
    Logged([f EXCEPT !.cfs.enabled = @ \cup {f.target},
                     !.changed = TRUE], "tpg.enable")

\* if not tpg.enable: tpg.enable = True
ac_enable(f, a) ==
    IF f.target \in f.cfs.enabled THEN f
    ELSE Logged([f EXCEPT !.cfs.enabled = @ \cup {f.target},
                          !.changed = TRUE], "tpg.enable")

\* rtslib.BlockStorageObject(vol_id): lookup, RTSLibNotInCFS when it is not
\* registered, and then BlockStorageObject(vol_id, dev=dev) registers it
ac_storage(f, a) ==
    IF a.vol_id \in f.cfs.stores THEN [f EXCEPT !.newStore = FALSE]
    ELSE Logged([f EXCEPT !.cfs.stores = @ \cup {a.vol_id},
                          !.newStore = TRUE], "BlockStorageObject")

\* A LUN number already in the TPG cannot be created again (RTSLibError)
tpg_lun_create(f, idx, so) ==
    IF \E l \in tpg_luns(f.cfs, f.target) : l.lun = idx
    THEN [Logged(f, "tpg.lun") EXCEPT !.err = "RTSLibError"]
    ELSE Logged([f EXCEPT !.cfs.luns = @ \cup
                     {[tgt |-> f.target, lun |-> idx, so |-> so]},
                          !.changed = TRUE], "tpg.lun")

\* lun_idx = len(list(tpg.luns))
next_lun_idx(c, t) == Cardinality(tpg_luns(c, t))

\* ac_lun with a fault: the LUN is allocated outside the 'except' branch, for
\* a store that is already registered too
ac_lun_always(f, a) ==
    LET idx == next_lun_idx(f.cfs, f.target)
        g == [f EXCEPT !.lun_idx = idx,
                       !.lunsBefore = {l.lun : l \in tpg_luns(f.cfs, f.target)}]
    IN tpg_lun_create(g, idx, a.vol_id)

\* ac_lun with a fault: for a registered store the LUN number is taken to be
\* that of the TPG's last LUN
ac_lun_last(f, a) ==
    IF f.newStore
    THEN LET idx == next_lun_idx(f.cfs, f.target)
             g == [f EXCEPT !.lun_idx = idx,
                            !.lunsBefore = {l.lun : l \in tpg_luns(f.cfs, f.target)}]
         IN tpg_lun_create(g, idx, a.vol_id)
    ELSE [f EXCEPT !.lun_idx = Cardinality(tpg_luns(f.cfs, f.target)) - 1]

\* except: lun_idx = len(list(tpg.luns))
\* else:   lun = list(storage.attached_luns)[0]; lun_idx = lun.lun
ac_lun_idx(f, a) ==
    IF f.newStore
    THEN [f EXCEPT !.lun_idx = next_lun_idx(f.cfs, f.target),
                   !.lunsBefore = {l.lun : l \in tpg_luns(f.cfs, f.target)}]
    ELSE LET l0 == first_lun(attached_luns(f.cfs, a.vol_id)) IN
         IF l0.exc # "" THEN [f EXCEPT !.err = l0.exc]
         ELSE [f EXCEPT !.lun_idx = l0.val.lun]

\* except: tpg.lun(lun_idx, storage, self.vol_id); changed = True
ac_lun_create(f, a) ==
    IF f.newStore THEN tpg_lun_create(f, f.lun_idx, a.vol_id) ELSE f

\* The two calls one after the other, as a serialized run makes them
ac_lun(f, a) ==
    LET g == ac_lun_idx(f, a)
    IN IF g.err # "" THEN g ELSE ac_lun_create(g, a)

\* the ACLs of the TPG whose node_wwn is the initiator
acls_of(c, t, wwn) == {x \in tpg_node_acls(c, t) : x.wwn = wwn}

\* for acl in acls: if acl.node_wwn == initiator ...; else tpg.node_acl(initiator)
ac_node_acl(f, a) ==
    IF acls_of(f.cfs, f.target, a.initiator) # {} THEN f
    ELSE Logged([f EXCEPT !.cfs.acls = @ \cup
                     {[tgt |-> f.target, wwn |-> a.initiator,
                       userid |-> "", password |-> ""]},
                          !.changed = TRUE], "tpg.node_acl")

\* node_acl: the first ACL found for the initiator
node_acl(f, a) == CHOOSE x \in acls_of(f.cfs, f.target, a.initiator) : TRUE

\* ac_chap_userid with a fault: the 'if' compares the userid alone
ac_chap_userid_only(f, a) ==
    LET acl == node_acl(f, a)
        diff == acl.userid # a.userid
    IN IF ~diff THEN [f EXCEPT !.credDiff = FALSE]
       ELSE Logged([f EXCEPT !.credDiff = TRUE,
                             !.cfs.acls = (@ \ {acl}) \cup
                                 {[acl EXCEPT !.userid = a.userid]}],
                   "chap_userid")

\* the condition of the 'if', then node_acl.chap_userid = userid
ac_chap_userid(f, a) ==
    LET acl == node_acl(f, a)
        diff == acl.userid # a.userid \/ acl.password # a.password
    IN IF ~diff THEN [f EXCEPT !.credDiff = FALSE]
       ELSE Logged([f EXCEPT !.credDiff = TRUE,
                             !.cfs.acls = (@ \ {acl}) \cup
                                 {[acl EXCEPT !.userid = a.userid]}],
                   "chap_userid")

\* node_acl.chap_password = password; changed = True
ac_chap_password(f, a) ==
    IF ~f.credDiff THEN f
    ELSE LET acl == node_acl(f, a) IN
         Logged([f EXCEPT !.cfs.acls = (@ \ {acl}) \cup
                              {[acl EXCEPT !.password = a.password]},
                          !.changed = TRUE], "chap_password")

\* node_acl.mapped_lun(lun_idx, lun_idx, False): the mapped LUN number must be
\* free in the ACL and the TPG must hold the LUN it refers to (RTSLibError)
acl_mapped_lun_create(f, wwn, idx) ==
    IF \/ \E m \in acl_mapped_luns(f.cfs, f.target, wwn) : m.mapped_lun = idx
       \/ ~\E l \in tpg_luns(f.cfs, f.target) : l.lun = idx
    THEN [Logged(f, "mapped_lun") EXCEPT !.err = "RTSLibError"]
    ELSE Logged([f EXCEPT !.cfs.mapped = @ \cup
                     {[tgt |-> f.target, wwn |-> wwn,
                       mapped_lun |-> idx, tpg_lun |-> idx]},
                          !.changed = TRUE], "mapped_lun")

\* for acl_lun in list(node_acl.mapped_luns): if acl_lun.tpg_lun.lun == lun_idx:
\*     break
\* else: node_acl.mapped_lun(lun_idx, lun_idx, False)
ac_mapped_lun(f, a) ==
    IF \E m \in acl_mapped_luns(f.cfs, f.target, a.initiator) :
           m.tpg_lun = f.lun_idx
    THEN f
    ELSE acl_mapped_lun_create(f, a.initiator, f.lun_idx)

\* The steps of add_connection, in program order
NSteps == 12

ac_step(k, f, a) ==
    CASE k = 1 -> ac_activate(f, a)
      [] k = 2 -> ac_scan_targets(f, a)
      [] k = 3 -> ac_new_target(f, a)
      [] k = 4 -> ac_new_tpg(f, a)
      [] k = 5 -> ac_new_portal(f, a)
      [] k = 6 -> ac_enable(f, a)
      [] k = 7 -> ac_storage(f, a)
      [] k = 8 -> ac_lun(f, a)
      [] k = 9 -> ac_node_acl(f, a)
      [] k = 10 -> ac_chap_userid(f, a)
      [] k = 11 -> ac_chap_password(f, a)
      [] k = 12 -> ac_mapped_lun(f, a)

\* Steps k..NSteps; the run stops at the first exception.  abortAt = n > 0:
\* the call is cut short by a failure of the subsystem right after the n-th
\* call of the run (the n-th entry of the log) has been applied.
RECURSIVE ac_run(_, _, _, _)
ac_run(k, f, a, abortAt) ==
    IF k > NSteps \/ f.err # "" THEN f
    ELSE LET g == ac_step(k, f, a) IN
         IF g.err = "" /\ Len(g.log) = abortAt /\ Len(f.log) < abortAt
         THEN [g EXCEPT !.err = "Aborted"]
         ELSE ac_run(k + 1, g, a, abortAt)

\* add_connection(initiator, userid, password) of LvmVolume(mod, vol_id)
add_connection(f, a, abortAt) ==
    ac_run(1, Logged(f, "add_connection"), a, abortAt)

\* ----------------------------------------------- LvmVolume.remove_connection
\* remove_connection with a fault: the ACLs left without a mapped LUN are
\* deleted after the store
remove_connection_cleanup(f, vol_id, initiator) ==
    LET g == Logged([f EXCEPT !.changed = FALSE], "remove_connection")
        ce == connection_exists(g.cfs, vol_id, initiator)
        c1 == storage_delete(g.cfs, vol_id)
        c2 == [c1 EXCEPT !.acls = {x \in @ :
                             acl_mapped_luns(c1, x.tgt, x.wwn) # {}}]
    IN IF ce.exc # "" THEN [g EXCEPT !.err = ce.exc]
       ELSE IF ce.ret
       THEN Logged([g EXCEPT !.cfs = c2, !.changed = TRUE], "storage.delete")
       ELSE g

remove_connection(f, vol_id, initiator) ==
    LET g == Logged([f EXCEPT !.changed = FALSE], "remove_connection")
        ce == connection_exists(g.cfs, vol_id, initiator)
    IN IF ce.exc # "" THEN [g EXCEPT !.err = ce.exc]
       ELSE IF ce.ret
       THEN Logged([g EXCEPT !.cfs = storage_delete(g.cfs, vol_id),
                             !.changed = TRUE], "storage.delete")
       ELSE g

\* -------------------------------------------------- LvmVolume.exists/create/delete
\* lvs -o name: vol_id in the lines of the output
exists(f, vol_id) == Cmd(f, "lvs", TRUE, f)

\* lvcreate -an -L <size>b -n vol_id, and -s QUARRY_VG/<ancestor> when an
\* ancestor is given: fails when the name is taken, when the size is 'Noneb'
\* and when the ancestor is not in the group; changed=True
create(f, vol_id, ancestor, size) ==
    LET g == [f EXCEPT !.lvcreate = [L |-> size, n |-> vol_id, s |-> ancestor]]
    IN Cmd(g, "lvcreate",
           /\ vol_id \notin f.lvm.vols
           /\ size # NoSize
           /\ ancestor # NoAncestor => ancestor \in f.lvm.vols,
           [g EXCEPT !.lvm.vols = @ \cup {vol_id}, !.changed = TRUE])

\* lvremove -f: fails on a volume that is not in the group; a forced removal
\* is taken to succeed also while a backing store refers to the volume's
\* device; changed=True
delete(f, vol_id) ==
    Cmd(f, "lvremove", vol_id \in f.lvm.vols,
        [f EXCEPT !.lvm.vols = @ \ {vol_id}, !.changed = TRUE])

\* final_result.update(result) for a result that holds the key 'changed'
update(f) == IF f.err # "" THEN f ELSE [f EXCEPT !.final = f.changed]

\* ---------------------------------------------------------- handle_connection
\* p = [volume_id, volume_size, volume_ancestor, state, connection, initiator,
\*      userid, password]
\* The frame after the call and final_result.update(result); dict() holds no
\* key, so that update leaves final_result as it is.
handle_connection(f, p, abortAt) ==
    IF p.connection = "None" THEN f
    ELSE IF p.initiator = NoInitiator
    THEN [Logged(f, "fail_json") EXCEPT !.err = "fail_json"]
    ELSE IF p.connection = "present"
    THEN update(add_connection(f, [vol_id |-> p.volume_id,
                                   initiator |-> p.initiator,
                                   userid |-> p.userid,
                                   password |-> p.password], abortAt))
    ELSE update(remove_connection(f, p.volume_id, p.initiator))

\* main with a fault: state=absent deletes the volume first and handles the
\* connection afterwards
main_delete_first(l, c, p, failCmd, abortAt) ==
    LET f0 == exists(Frame(l, c, failCmd), p.volume_id)
        observed == p.volume_id \in l.vols
    IN IF f0.err # "" THEN f0
       ELSE IF p.state = "present"
       THEN LET f1 == IF ~observed
                       THEN update(create(f0, p.volume_id, p.volume_ancestor,
                                          p.volume_size))
                       ELSE f0
            IN IF f1.err # "" THEN f1 ELSE handle_connection(f1, p, abortAt)
       ELSE IF p.state = "absent" /\ observed
       THEN LET f1 == update(delete(f0, p.volume_id))
            IN IF f1.err # "" THEN f1 ELSE handle_connection(f1, p, abortAt)
       ELSE f0

\* main with a fault: state=present handles the connection first and creates
\* the volume afterwards
main_connect_first(l, c, p, failCmd, abortAt) ==
    LET f0 == exists(Frame(l, c, failCmd), p.volume_id)
        observed == p.volume_id \in l.vols
    IN IF f0.err # "" THEN f0
       ELSE IF p.state = "present"
       THEN LET f1 == handle_connection(f0, p, abortAt)
            IN IF f1.err # "" \/ observed THEN f1
               ELSE update(create(f1, p.volume_id, p.volume_ancestor,
                                  p.volume_size))
       ELSE IF p.state = "absent" /\ observed
       THEN LET f1 == handle_connection(f0, p, abortAt)
            IN IF f1.err # "" THEN f1 ELSE update(delete(f1, p.volume_id))
       ELSE f0

\* ------------------------------------------------------------------------ main
\* The frame at exit_json or fail_json (or at the traceback of an exception
\* that main does not catch).  observed is the value of 'exists'.
main(l, c, p, failCmd, abortAt) ==
    LET f0 == exists(Frame(l, c, failCmd), p.volume_id)
        observed == p.volume_id \in l.vols
    IN IF f0.err # "" THEN f0
       ELSE IF p.state = "present"
       THEN LET f1 == IF ~observed
                       THEN update(create(f0, p.volume_id, p.volume_ancestor,
                                          p.volume_size))
                       ELSE f0
            IN IF f1.err # "" THEN f1 ELSE handle_connection(f1, p, abortAt)
       ELSE IF p.state = "absent" /\ observed
       THEN LET f1 == handle_connection(f0, p, abortAt)
            IN IF f1.err # "" THEN f1 ELSE update(delete(f1, p.volume_id))
       ELSE f0

\* How the run ended, as the caller sees it
Outcome(f) ==
    CASE f.err = "" -> "exit_json"
      [] f.err = "CommandFailure" -> "fail_json_cmd"
      [] f.err = "fail_json" -> "fail_json_initiator"
      [] OTHER -> f.err

\* --------------------------------------------------------------- the runs
\* The parameters of a run.  A parameter the run never reads is left out of
\* the enumeration: initiator without connection, credentials without
\* connection=present and an initiator, size and ancestor with state=absent.
Params ==
    { p \in [volume_id : Vols, volume_size : Sizes, volume_ancestor : Ancestors,
             state : {"present", "absent"},
             connection : {"None", "present", "absent"},
             initiator : Initiators \cup {NoInitiator},
             userid : Userids, password : Passwords] :
        /\ <<p.userid, p.password>> \in Credentials
        /\ p.state = "absent" =>
               (p.volume_size = NoSize /\ p.volume_ancestor = NoAncestor)
        /\ p.connection = "None" => p.initiator = NoInitiator
        /\ (p.connection # "present" \/ p.initiator = NoInitiator)
               => (p.userid = "" /\ p.password = "") }

\* The arguments of an add_connection call
ConnArgs ==
    { a \in [vol_id : Vols, initiator : Initiators,
             userid : Userids, password : Passwords] :
        <<a.userid, a.password>> \in Credentials }

\* e.cmd of the CommandFailure that main caught: the command that failed
FailedCommand(f) ==
    IF f.err = "CommandFailure" THEN f.log[Len(f.log)] ELSE ""

\* exit_json(**final_result) / fail_json(name=..., msg=str(e), rc=e.rc): what
\* the caller is told; str(e) names the command that failed
Reported(f) ==
    [outcome |-> Outcome(f), changed |-> (f.err = "" /\ f.final),
     cmd |-> FailedCommand(f)]

\* What the caller has been told before the first run
NoResult == [outcome |-> "none", changed |-> FALSE, cmd |-> ""]

\* No add_connection is running beside the serialized runs
NoCalls == <<>>

NoRetry ==
    [phase |-> "none", vol_id |-> 0, initiator |-> NoInitiator,
     userid |-> "", password |-> ""]

\* The host before the first run: an empty volume group, and a target
\* configuration that holds the target of another tool
Init ==
    /\ lvm = [vols |-> {}]
    /\ cfs = ForeignCfs
    /\ result = NoResult
    /\ retry = NoRetry
    /\ calls = NoCalls

\* One run of the module, every external call succeeding
Reconcile(p) ==
    \E f \in {main(lvm, cfs, p, "", 0)} :
        /\ lvm' = f.lvm
        /\ cfs' = f.cfs
        /\ result' = Reported(f)
        /\ UNCHANGED <<retry, calls>>

Next == \E p \in Params : Reconcile(p)

Spec == Init /\ [][Next]_vars

\* ------------------------------------------------- a call cut short, and retried
\* A run whose add_connection is cut short by a failure of the target
\* subsystem right after its n-th call; what was applied stays (no rollback)
AbortedRun(p, n) ==
    /\ retry.phase = "none"
    /\ p.connection = "present" /\ p.initiator # NoInitiator
    /\ \E f \in {main(lvm, cfs, p, "", n)} :
          /\ f.err = "Aborted"
          /\ lvm' = f.lvm
          /\ cfs' = f.cfs
          /\ result' = Reported(f)
          /\ retry' = [phase |-> "aborted", vol_id |-> p.volume_id,
                       initiator |-> p.initiator, userid |-> p.userid,
                       password |-> p.password]
          /\ UNCHANGED calls

\* The calls of a run's add_connection that a failure can follow: the
\* entries of the run's log after the entry of add_connection itself
AbortPoints(p) ==
    IF p.connection # "present" \/ p.initiator = NoInitiator THEN {}
    ELSE UNION { IF Pos(log, "add_connection") = 0 THEN {}
                 ELSE (Pos(log, "add_connection") + 1)..Len(log) :
                     log \in {main(lvm, cfs, p, "", 0).log} }

\* The caller re-invokes with the same arguments, and nothing fails this time
RetryParams ==
    [volume_id |-> retry.vol_id, volume_size |-> NoSize,
     volume_ancestor |-> NoAncestor, state |-> "present",
     connection |-> "present",
     initiator |-> retry.initiator, userid |-> retry.userid,
     password |-> retry.password]

Retry ==
    /\ retry.phase = "aborted"
    /\ \E f \in {main(lvm, cfs, RetryParams, "", 0)} :
          /\ lvm' = f.lvm
          /\ cfs' = f.cfs
          /\ result' = Reported(f)
          /\ retry' = [retry EXCEPT !.phase = "retried"]
          /\ UNCHANGED calls

\* The runs that get cut short: connection=present with an initiator, given
\* neither size nor ancestor, as for a volume that exists.  (A run that
\* creates the volume first leaves the states of the run that only creates
\* it followed by one of these.)
AbortParams ==
    { p \in Params : /\ p.connection = "present" /\ p.initiator # NoInitiator
                     /\ p.volume_size = NoSize
                     /\ p.volume_ancestor = NoAncestor }

\* Runs that succeed, then one call cut short and its retry
NextAbort ==
    \/ \E p \in Params : retry.phase = "none" /\ Reconcile(p)
    \/ \E p \in AbortParams : \E n \in AbortPoints(p) : AbortedRun(p, n)
    \/ Retry

SpecAbort == Init /\ [][NextAbort]_vars

\* --------------------------------------- export states made by other tools too
\* The target configuration is shared with every other user of the target
\* subsystem: the states connection_exists may have to read.  One target of
\* this module; any stores; LUN numbers bound to stores, a store on any
\* number of LUNs; ACLs mapped to any of the LUNs.
LunNumbers == 0..(NumVols - 1)

AnyCfs ==
    { [targets |-> {ForeignTarget, 1}, tpgs |-> {ForeignTarget, 1},
       enabled |-> {ForeignTarget, 1}, portals |-> {ForeignTarget, 1},
       stores |-> st,
       luns |-> {[tgt |-> 1, lun |-> n, so |-> bind[n]] :
                    n \in {x \in LunNumbers : bind[x] # 0}},
       acls |-> {[tgt |-> 1, wwn |-> w, userid |-> "", password |-> ""] :
                    w \in {m[1] : m \in mp}},
       mapped |-> {[tgt |-> 1, wwn |-> m[1], mapped_lun |-> m[2],
                    tpg_lun |-> m[2]] : m \in mp}] :
        st \in SUBSET Vols,
        bind \in [LunNumbers -> Vols \cup {0}],
        mp \in SUBSET (Initiators \X LunNumbers) }

WellFormed(c) ==
    /\ \A l \in c.luns : l.so \in c.stores
    /\ \A m \in c.mapped : \E l \in c.luns : l.tgt = m.tgt /\ l.lun = m.tpg_lun

InitAny ==
    /\ lvm = [vols |-> Vols]
    /\ cfs \in {c \in AnyCfs : WellFormed(c)}
    /\ result = NoResult
    /\ retry = NoRetry
    /\ calls = NoCalls

\* The runs that evaluate connection_exists: connection=absent
NextAny == \E p \in Params : p.connection = "absent" /\ Reconcile(p)

SpecAny == InitAny /\ [][NextAny]_vars

\* --------------------------- add_connection calls that run at the same time
\* Two runs of the module for two volume ids, each in its add_connection,
\* with no lock between them: the calls into the target subsystem interleave.
\* One step is one call of add_connection (a read of the configuration with
\* the test on it, or a write); len(list(tpg.luns)) and tpg.lun are two steps.
ConcSteps == 13

conc_step(k, f, a) ==
    CASE k <= 7 -> ac_step(k, f, a)
      [] k = 8 -> ac_lun_idx(f, a)
      [] k = 9 -> ac_lun_create(f, a)
      [] OTHER -> ac_step(k - 1, f, a)

\* The export state after a volume was connected and disconnected again: the
\* target, its port group and portal and an ACL are there, no store is
AfterRemoveCfs ==
    LET f1 == add_connection(Frame([vols |-> Vols], ForeignCfs, ""),
                             [vol_id |-> 1, initiator |-> 1,
                              userid |-> "", password |-> ""], 0)
    IN remove_connection(Frame(f1.lvm, f1.cfs, ""), 1, 1).cfs

\* The locals of a call, without the module-wide state it works on
Locals(f) == [f EXCEPT !.lvm = [vols |-> {}], !.cfs = EmptyCfs]

\* Both volumes exist; nothing is exported yet, or only the target is left;
\* each call has its own volume id, and any initiator and credentials
InitConc ==
    /\ lvm = [vols |-> Vols]
    /\ cfs \in {ForeignCfs, AfterRemoveCfs}
    /\ result = NoResult
    /\ retry = NoRetry
    /\ calls \in { c \in [Vols -> [pc : {1}, a : ConnArgs,
                                   f : {Logged(Locals(Frame(lvm, cfs, "")),
                                               "add_connection")}]] :
                     \A v \in Vols : c[v].a.vol_id = v }

\* The call for volume v makes its next step on the configuration as it is now
ConcStep(v) ==
    /\ calls[v].pc <= ConcSteps
    /\ calls[v].f.err = ""
    /\ \E g \in {conc_step(calls[v].pc,
                           [calls[v].f EXCEPT !.lvm = lvm, !.cfs = cfs],
                           calls[v].a)} :
          /\ lvm' = g.lvm
          /\ cfs' = g.cfs
          /\ calls' = [calls EXCEPT ![v] = [pc |-> calls[v].pc + 1,
                                            a |-> calls[v].a,
                                            f |-> Locals(g)]]
    /\ UNCHANGED <<result, retry>>

NextConc == \E v \in Vols : ConcStep(v)

SpecConc == InitConc /\ [][NextConc]_vars

\* ------------------------------------------------- runs with a failing command
\* The external commands of the module; in a run any one of them may exit
\* non-zero
FailCmds == {"lvs", "lvcreate", "lvchange", "lvremove"}

\* A run in which the command fc fails when the run issues it; what the run
\* did before stays
RunFailing(p, fc) ==
    \E f \in {main(lvm, cfs, p, fc, 0)} :
        /\ FailedCommand(f) = fc
        /\ lvm' = f.lvm
        /\ cfs' = f.cfs
        /\ result' = Reported(f)
        /\ UNCHANGED <<retry, calls>>

\* The runs of this specification: state=present comes with a size and
\* without an ancestor, so that a command fails only where it is made to
FailParams ==
    { p \in Params : p.state = "present" =>
          (p.volume_size # NoSize /\ p.volume_ancestor = NoAncestor) }

NextFail ==
    \/ \E p \in FailParams : Reconcile(p)
    \/ \E p \in FailParams : \E fc \in FailCmds : RunFailing(p, fc)

SpecFail == Init /\ [][NextFail]_vars

\* =================================================================== claims
\* The claims are stated over every call that can be made from a reachable
\* state: F0 is the frame such a call starts in.
F0 == Frame(lvm, cfs, "")

\* The frame a second call starts in, after a first call left frame f
After(f) == Frame(f.lvm, f.cfs, "")

QuarryTargets(c) == {t \in c.targets : IsQuarry(t)}

\* The state that add_connection(a) is meant to reach: the target with its
\* TPG enabled and its portal, the store on exactly one LUN, exactly one ACL
\* for the initiator, holding the credentials, and mapped to that LUN
FullyConnected(c, a) ==
    \E t \in QuarryTargets(c) :
        /\ t \in c.tpgs /\ t \in c.enabled /\ t \in c.portals
        /\ a.vol_id \in c.stores
        /\ Cardinality(attached_luns(c, a.vol_id)) = 1
        /\ \E l \in attached_luns(c, a.vol_id) :
              /\ l.tgt = t
              /\ \E m \in c.mapped :
                    m.tgt = t /\ m.wwn = a.initiator /\ m.tpg_lun = l.lun
        /\ acls_of(c, t, a.initiator) =
               {[tgt |-> t, wwn |-> a.initiator,
                 userid |-> a.userid, password |-> a.password]}

\* No export has been made yet: no target of this module, no store, no ACL
NothingExported(c) ==
    QuarryTargets(c) = {} /\ c.stores = {} /\ c.luns = {} /\ c.acls = {} /\ c.mapped = {}

\* C1: add_connection twice in a row with the same arguments: the second call
\* succeeds, reports changed=false and leaves the export state and the LUN
\* number as the first call left them; the first call reports changed=true
\* whenever the volume had no backing store, and from a host with nothing
\* exported the two calls end with one target, one backing store, one LUN,
\* one ACL and one mapping.
C1_AddTwice ==
    \A a \in ConnArgs :
        LET f1 == add_connection(F0, a, 0)
            f2 == add_connection(After(f1), a, 0)
        IN f1.err = "" =>
              /\ f2.err = ""
              /\ ~f2.changed
              /\ f2.cfs = f1.cfs
              /\ f2.lun_idx = f1.lun_idx
              /\ a.vol_id \notin cfs.stores => f1.changed
              /\ NothingExported(cfs) =>
                    /\ f1.changed
                    /\ Cardinality(QuarryTargets(f2.cfs)) = 1
                    /\ Cardinality(f2.cfs.stores) = 1
                    /\ Cardinality(f2.cfs.luns) = 1
                    /\ Cardinality(f2.cfs.acls) = 1
                    /\ Cardinality(f2.cfs.mapped) = 1

\* C1 witness: a run has just made the first export of the host (it reported
\* changed=true and left one target, one store, one LUN, one ACL and one
\* mapping), and the same add_connection again changes nothing
C1_Witness ==
    /\ result = [outcome |-> "exit_json", changed |-> TRUE, cmd |-> ""]
    /\ Cardinality(QuarryTargets(cfs)) = 1 /\ Cardinality(cfs.stores) = 1
    /\ Cardinality(cfs.luns) = 1 /\ Cardinality(cfs.acls) = 1
    /\ Cardinality(cfs.mapped) = 1
    /\ \E a \in ConnArgs :
          /\ FullyConnected(cfs, a)
          /\ LET f2 == add_connection(F0, a, 0)
             IN f2.err = "" /\ ~f2.changed /\ f2.cfs = cfs

\* The run of main with parameters p from the current state
Run(p) == main(lvm, cfs, p, "", 0)

\* C2: a run that completes reports changed=true exactly when it changed the
\* volume group or the export state.
C2_ChangedIffChange ==
    [][result'.outcome = "exit_json" =>
           (result'.changed <=> (lvm'.vols # lvm.vols \/ cfs' # cfs))]_vars

\* C3: a run that fails for want of an initiator has changed nothing by the
\* time it fails: no volume was created, the export state is as it was.
C3_NoInitiatorNoChange ==
    [][result'.outcome = "fail_json_initiator" => (lvm' = lvm /\ cfs' = cfs)]_vars

\* C4: the LUN number that add_connection allocates for a new backing store
\* is free in the TPG at that moment, and no two stores share a LUN number.
C4_FreshLun ==
    /\ \A a \in ConnArgs :
          LET f == add_connection(F0, a, 0)
          IN f.newStore => f.lun_idx \notin f.lunsBefore
    /\ \A l1, l2 \in cfs.luns :
          (l1.tgt = l2.tgt /\ l1.lun = l2.lun) => l1.so = l2.so

\* C5: add_connection(v, init, u, p) followed by remove_connection(v, init)
\* leaves no backing store and no LUN for v, and connection_exists(init) is
\* then false.
C5_AddThenRemove ==
    \A a \in ConnArgs :
        LET f1 == add_connection(F0, a, 0)
            f2 == remove_connection(After(f1), a.vol_id, a.initiator)
        IN f1.err = "" =>
              /\ f2.err = ""
              /\ a.vol_id \notin f2.cfs.stores
              /\ attached_luns(f2.cfs, a.vol_id) = {}
              /\ connection_exists(f2.cfs, a.vol_id, a.initiator)
                     = [ret |-> FALSE, exc |-> ""]

\* The runs C6 is about: state=absent, connection=absent, an initiator, the
\* volume exists and its connection to the initiator exists
C6_Case(p) ==
    /\ p.state = "absent" /\ p.connection = "absent"
    /\ p.initiator # NoInitiator
    /\ p.volume_id \in lvm.vols
    /\ connection_exists(cfs, p.volume_id, p.initiator).ret

\* C6: in such a run the backing store is deleted before lvremove is issued,
\* and lvremove is issued with the store no longer registered.
C6_DisconnectBeforeDelete ==
    \A p \in Params :
        C6_Case(p) =>
            LET f == Run(p)
            IN /\ f.err = ""
               /\ Pos(f.log, "storage.delete") > 0
               /\ Pos(f.log, "storage.delete") < Pos(f.log, "lvremove")
               /\ p.volume_id \notin f.cfs.stores
               /\ p.volume_id \notin f.lvm.vols

\* C6 witness: a connected volume, for which such a run deletes the store and
\* then the volume
C6_Witness ==
    \E p \in Params :
        /\ C6_Case(p)
        /\ FullyConnected(cfs, [vol_id |-> p.volume_id, initiator |-> p.initiator,
                                userid |-> "u1", password |-> "p1"])
        /\ Run(p).log = <<"lvs", "remove_connection", "storage.delete", "lvremove">>

\* C7: whenever a connection value is given, the connection table is applied,
\* whatever the desired and observed volume state: failure without an
\* initiator, add_connection for present, remove_connection for absent.
C7_ConnectionAxis ==
    \A p \in Params :
        LET f == Run(p)
        IN p.connection # "None" =>
              /\ p.initiator = NoInitiator =>
                     (f.err = "fail_json" /\ Pos(f.log, "add_connection") = 0
                          /\ Pos(f.log, "remove_connection") = 0)
              /\ (p.initiator # NoInitiator /\ p.connection = "present")
                     => Pos(f.log, "add_connection") > 0
              /\ (p.initiator # NoInitiator /\ p.connection = "absent")
                     => Pos(f.log, "remove_connection") > 0

\* C8: when an add_connection is cut short after any of its steps, the same
\* call made again completes and reaches the connected state.
C8_RetryCompletes ==
    [][retry.phase = "aborted" =>
           /\ result'.outcome = "exit_json"
           /\ FullyConnected(cfs', [vol_id |-> retry.vol_id,
                                    initiator |-> retry.initiator,
                                    userid |-> retry.userid,
                                    password |-> retry.password])]_vars

\* The strict predicate: the store exists, it is on exactly one LUN, that
\* LUN has exactly one mapping, and the mapping is the initiator's
StrictConnection(c, v, i) ==
    /\ v \in c.stores
    /\ Cardinality({l \in c.luns : l.so = v}) = 1
    /\ \A l \in c.luns : l.so = v =>
          /\ Cardinality({m \in c.mapped : m.tgt = l.tgt /\ m.tpg_lun = l.lun}) = 1
          /\ \A m \in c.mapped : (m.tgt = l.tgt /\ m.tpg_lun = l.lun) => m.wwn = i

\* C9: connection_exists returns true exactly on the strict predicate, and
\* never raises, whatever the shape of the export state.
C9_StrictPredicate ==
    \A v \in Vols, i \in Initiators :
        connection_exists(cfs, v, i)
            = [ret |-> StrictConnection(cfs, v, i), exc |-> ""]

\* C9 witness: a run found a store on two LUNs, one of them mapped to the
\* initiator alone, and removed nothing
C9_Witness ==
    /\ result = [outcome |-> "exit_json", changed |-> FALSE, cmd |-> ""]
    /\ \E v \in Vols, i \in Initiators :
          /\ Cardinality(attached_luns(cfs, v)) = 2
          /\ \E l \in attached_luns(cfs, v) :
                lun_mapped_luns(cfs, l) =
                    {[tgt |-> l.tgt, wwn |-> i, mapped_lun |-> l.lun,
                      tpg_lun |-> l.lun]}
          /\ ~connection_exists(cfs, v, i).ret

\* The calls C10 is about: the volume exists and is connected to the
\* initiator (store, one LUN, one ACL, mapping), and the ACL holds other
\* credentials
C10_Case(a) ==
    /\ a.vol_id \in lvm.vols
    /\ \E u \in Userids, pw \in Passwords :
          /\ <<u, pw>> # <<a.userid, a.password>>
          /\ FullyConnected(cfs, [a EXCEPT !.userid = u, !.password = pw])

\* C10: such a call reports changed=true, leaves one ACL for the initiator,
\* holding the new credentials, and creates nothing.
C10_CredentialUpdate ==
    \A a \in ConnArgs :
        C10_Case(a) =>
            LET f == add_connection(F0, a, 0)
                mine(c) == {x \in c.acls : x.wwn = a.initiator}
            IN /\ f.err = ""
               /\ f.changed
               /\ FullyConnected(f.cfs, a)
               /\ Cardinality(mine(f.cfs)) = 1
               /\ f.cfs.acls \ mine(f.cfs) = cfs.acls \ mine(cfs)
               /\ f.cfs.targets = cfs.targets /\ f.cfs.stores = cfs.stores
               /\ f.cfs.luns = cfs.luns /\ f.cfs.mapped = cfs.mapped

\* C10 witness: a run has just rewritten credentials: it reported changed=true
\* on a volume that stays connected, and the credentials it replaced would be
\* rewritten again
C10_Witness ==
    /\ result = [outcome |-> "exit_json", changed |-> TRUE, cmd |-> ""]
    /\ \E a \in ConnArgs :
          /\ C10_Case(a)
          /\ a.userid = "u1" /\ a.password = "p1"
          /\ add_connection(F0, a, 0).log =
                 <<"add_connection", "lvchange", "chap_userid", "chap_password">>

\* C11: after any sequence of runs there is at most one target of this module,
\* it owns its port group, and no initiator has two ACLs; add_connection
\* creates a target only when no target of this module exists, and an ACL only
\* when the initiator has none.
C11_SingleTarget ==
    /\ Cardinality(QuarryTargets(cfs)) <= 1
    /\ \A t \in QuarryTargets(cfs) : t \in cfs.tpgs
    /\ \A i \in Initiators : Cardinality({x \in cfs.acls : x.wwn = i}) <= 1
    /\ \A a \in ConnArgs :
          LET f == add_connection(F0, a, 0)
          IN /\ Pos(f.log, "Target") > 0 => QuarryTargets(cfs) = {}
             /\ Pos(f.log, "tpg.node_acl") > 0 =>
                    {x \in cfs.acls : x.wwn = a.initiator} = {}

\* C11 witness: every volume was connected and disconnected again, for two
\* initiators: the one target and the two ACLs are still there, and a further
\* add_connection creates neither a target nor an ACL
C11_Witness ==
    /\ Cardinality(QuarryTargets(cfs)) = 1
    /\ cfs.stores = {}
    /\ {x.wwn : x \in cfs.acls} = Initiators
    /\ lvm.vols # {}
    /\ \E a \in ConnArgs :
          LET f == add_connection(F0, a, 0)
          IN /\ f.err = "" /\ f.changed
             /\ Pos(f.log, "Target") = 0 /\ Pos(f.log, "tpg.node_acl") = 0

\* C12: every backing store is named by one volume id and is registered once,
\* and has at most one LUN: add_connection registers a store only when none
\* has the volume's id, and creates a LUN only right after registering the
\* store.
C12_OneStoreOneLun ==
    /\ cfs.stores \subseteq Vols
    /\ \A so \in cfs.stores : Cardinality(attached_luns(cfs, so)) <= 1
    /\ \A l \in cfs.luns : l.so \in cfs.stores
    /\ \A a \in ConnArgs :
          LET f == add_connection(F0, a, 0)
          IN /\ Pos(f.log, "BlockStorageObject") > 0 => a.vol_id \notin cfs.stores
             /\ Pos(f.log, "tpg.lun") > 0 =>
                    /\ a.vol_id \notin cfs.stores
                    /\ Pos(f.log, "tpg.lun") = Pos(f.log, "BlockStorageObject") + 1

\* C12 witness: every volume has its store, each on one LUN, one of them
\* mapped to two initiators; an add_connection for it registers no store and
\* creates no LUN
C12_Witness ==
    /\ cfs.stores = Vols
    /\ \A so \in cfs.stores : Cardinality(attached_luns(cfs, so)) = 1
    /\ \E a \in ConnArgs :
          /\ \E l \in attached_luns(cfs, a.vol_id) :
                Cardinality(lun_mapped_luns(cfs, l)) = 2
          /\ LET f == add_connection(F0, a, 0)
             IN /\ f.err = ""
                /\ Pos(f.log, "BlockStorageObject") = 0
                /\ Pos(f.log, "tpg.lun") = 0

\* What C13 says of creation, of the two cases that leave the volume group
\* alone, and of the order of create and add_connection, for the run of p
\* that ended in frame f
C13_Create(p, f) ==
    LET observed == p.volume_id \in lvm.vols
    IN /\ Pos(f.log, "lvcreate") > 0 <=> (p.state = "present" /\ ~observed)
       /\ Pos(f.log, "lvcreate") > 0 =>
              /\ f.lvcreate = [L |-> p.volume_size, n |-> p.volume_id,
                               s |-> p.volume_ancestor]
              /\ FailedCommand(f) # "lvcreate" =>
                     f.lvm.vols = lvm.vols \cup {p.volume_id}
              /\ Pos(f.log, "add_connection") > 0 =>
                     Pos(f.log, "lvcreate") < Pos(f.log, "add_connection")
       /\ (p.state = "present" /\ observed) => f.lvm = lvm
       /\ (p.state = "absent" /\ ~observed) => f.lvm = lvm
       /\ Pos(f.log, "lvremove") > 0 => (p.state = "absent" /\ observed)

\* C13 as claimed: the volume axis follows its table in every run: created,
\* with the given size and ancestor, exactly when state=present and the
\* volume is absent, deleted exactly when state=absent and the volume is
\* present, the volume group untouched otherwise, create before
\* add_connection.
C13_VolumeAxis ==
    \A p \in Params :
        LET f == Run(p)
        IN /\ C13_Create(p, f)
           /\ (p.state = "absent" /\ p.volume_id \in lvm.vols) =>
                  /\ Pos(f.log, "lvremove") > 0
                  /\ f.lvm.vols = lvm.vols \ {p.volume_id}

\* C13 as amended: the same, but a run with state=absent on a volume that is
\* present deletes it exactly when its connection step, if it has one, does
\* not fail; when that step fails the run ends before lvremove and the
\* volume stays.
C13_VolumeAxisUnlessFailed ==
    \A p \in Params :
        LET f == Run(p)
        IN /\ C13_Create(p, f)
           /\ (p.state = "absent" /\ p.volume_id \in lvm.vols) =>
                  IF f.err = ""
                  THEN /\ Pos(f.log, "lvremove") = Len(f.log)
                       /\ f.lvm.vols = lvm.vols \ {p.volume_id}
                  ELSE /\ Pos(f.log, "lvremove") = 0
                       /\ f.lvm = lvm
                       /\ p.connection # "None"

\* C13 witness: one volume is there and another is not; a run creates the
\* other as a snapshot of the first and then connects it, a run with
\* state=absent and no connection deletes the first, and a run with
\* state=absent and a connection but no initiator fails and leaves it
C13_Witness ==
    /\ \E p \in Params :
          /\ p.state = "present" /\ p.volume_id \notin lvm.vols
          /\ p.volume_ancestor \in lvm.vols /\ p.volume_size # NoSize
          /\ p.connection = "present"
          /\ Run(p).err = ""
          /\ Pos(Run(p).log, "lvcreate") = 2
          /\ Pos(Run(p).log, "add_connection") = 3
          /\ Run(p).lvm.vols = lvm.vols \cup {p.volume_id}
    /\ \E q \in Params :
          /\ q.state = "absent" /\ q.volume_id \in lvm.vols
          /\ q.connection = "None"
          /\ Run(q).log = <<"lvs", "lvremove">>
    /\ \E r \in Params :
          /\ r.state = "absent" /\ r.volume_id \in lvm.vols
          /\ r.connection = "absent" /\ r.initiator = NoInitiator
          /\ Run(r).err = "fail_json" /\ Run(r).lvm = lvm

\* C14: remove_connection leaves the targets, their port groups and portals,
\* and the ACLs with their credentials as they are, also when it removes the
\* last mapping of an ACL; when the connection does not exist by the strict
\* predicate it leaves the whole export state as it is and reports
\* changed=false, and when it exists the store goes and changed=true.
C14_RemoveKeepsAcls ==
    \A v \in Vols, i \in Initiators :
        LET f == remove_connection(F0, v, i)
        IN /\ f.err = ""
           /\ f.cfs.acls = cfs.acls
           /\ f.cfs.targets = cfs.targets /\ f.cfs.tpgs = cfs.tpgs
           /\ f.cfs.enabled = cfs.enabled /\ f.cfs.portals = cfs.portals
           /\ IF StrictConnection(cfs, v, i)
              THEN f.changed /\ v \notin f.cfs.stores
              ELSE ~f.changed /\ f.cfs = cfs

\* C14 witness: a connection whose mapping is the only one of the
\* initiator's ACL; remove_connection leaves that ACL without any mapping,
\* and a second remove_connection changes nothing
C14_Witness ==
    \E v \in Vols, i \in Initiators :
        LET f == remove_connection(F0, v, i)
            g == remove_connection(After(f), v, i)
        IN /\ StrictConnection(cfs, v, i)
           /\ Cardinality({m \in cfs.mapped : m.wwn = i}) = 1
           /\ f.changed
           /\ {m \in f.cfs.mapped : m.wwn = i} = {}
           /\ {x \in f.cfs.acls : x.wwn = i} # {}
           /\ ~g.changed /\ g.cfs = f.cfs

\* C15: add_connection for a volume that exists and has no store, into a port
\* group without LUNs (or with no target yet), returns LUN number 0; for a
\* volume whose store is on a LUN it returns that LUN's number, whatever the
\* initiator and the credentials; and no add_connection, for any volume,
\* changes the LUN of a store that is registered.
C15_StableLun ==
    \A a \in ConnArgs :
        LET f == add_connection(F0, a, 0)
        IN a.vol_id \in lvm.vols =>
              /\ \A l \in cfs.luns : l \in f.cfs.luns
              /\ (a.vol_id \notin cfs.stores
                    /\ \A l \in cfs.luns : ~IsQuarry(l.tgt)) =>
                     (f.err = "" /\ f.lun_idx = 0)
              /\ \A l \in attached_luns(cfs, a.vol_id) :
                     /\ f.err = ""
                     /\ f.lun_idx = l.lun
                     /\ attached_luns(f.cfs, a.vol_id) = {l}

\* C15 witness: two volumes on LUN 0 and LUN 1, connected to one initiator
\* each; add_connection of either volume to the other volume's initiator
\* returns the volume's own LUN number and maps it
C15_Witness ==
    /\ {l.lun : l \in cfs.luns} = {0, 1}
    /\ \A l \in cfs.luns : Cardinality(lun_mapped_luns(cfs, l)) = 1
    /\ \A l \in cfs.luns : \E a \in ConnArgs :
          LET f == add_connection(F0, a, 0)
          IN /\ a.vol_id = l.so /\ a.vol_id \in lvm.vols
             /\ ~\E m \in lun_mapped_luns(cfs, l) : m.wwn = a.initiator
             /\ f.err = "" /\ f.changed /\ f.lun_idx = l.lun
             /\ Pos(f.log, "mapped_lun") > 0

\* C16: after every run that completes, every registered backing store is the
\* store of a volume that is in the volume group.
C16_StoreHasVolume ==
    result.outcome = "exit_json" => cfs.stores \subseteq lvm.vols

\* C17: right after an add_connection that returns, connection_exists is true
\* for its volume and initiator.
C17_ExistsAfterAdd ==
    \A a \in ConnArgs :
        LET f == add_connection(F0, a, 0)
        IN f.err = "" =>
              connection_exists(f.cfs, a.vol_id, a.initiator)
                  = [ret |-> TRUE, exc |-> ""]

\* C18: while two add_connection calls for two volume ids interleave there is
\* never more than one target of this module, and the two calls never take
\* the same LUN number for the stores they register.
C18_Interleaved ==
    /\ Cardinality(QuarryTargets(cfs)) <= 1
    /\ \A v, w \in Vols :
          (/\ v # w
           /\ calls[v].f.newStore /\ calls[v].f.lun_idx # NoLun
           /\ calls[w].f.newStore /\ calls[w].f.lun_idx # NoLun)
              => calls[v].f.lun_idx # calls[w].f.lun_idx

\* C19: a run in which a command fails ends on that command, which it issued
\* once: when lvs or lvcreate fails the export state is as before and no
\* connection step has run; when the lvchange of add_connection fails the
\* export state is as before; when lvremove fails after remove_connection
\* deleted the store, the store stays deleted and the volume stays.
C19_AbortNoRollback ==
    \A p \in FailParams, fc \in FailCmds :
        LET f == main(lvm, cfs, p, fc, 0)
        IN Pos(f.log, fc) > 0 =>
              /\ f.err = "CommandFailure"
              /\ Pos(f.log, fc) = Len(f.log)
              /\ fc \in {"lvs", "lvcreate"} =>
                     /\ f.cfs = cfs /\ f.lvm = lvm
                     /\ Pos(f.log, "add_connection") = 0
                     /\ Pos(f.log, "remove_connection") = 0
                     /\ Pos(f.log, "fail_json") = 0
              /\ fc = "lvchange" =>
                     /\ f.cfs = cfs
                     /\ f.log[Len(f.log) - 1] = "add_connection"
              /\ fc = "lvremove" =>
                     /\ f.lvm = lvm
                     /\ Pos(f.log, "storage.delete") > 0 =>
                            /\ p.volume_id \in cfs.stores
                            /\ f.cfs = storage_delete(cfs, p.volume_id)

\* C19 witness: lvremove has just failed in a run whose remove_connection had
\* deleted the store of a volume: the volume is there, its store is not, and
\* the ACL it was mapped to has no mapping left; from here a run with
\* connection=present whose lvchange fails leaves the export state as it is
C19_Witness ==
    /\ result = [outcome |-> "fail_json_cmd", changed |-> FALSE,
                 cmd |-> "lvremove"]
    /\ \E v \in lvm.vols, x \in cfs.acls :
          /\ v \notin cfs.stores
          /\ cfs.mapped = {}
          /\ \E p \in FailParams :
                LET f == main(lvm, cfs, p, "lvchange", 0)
                IN /\ p.volume_id = v /\ p.initiator = x.wwn
                   /\ p.connection = "present"
                   /\ FailedCommand(f) = "lvchange"
                   /\ f.cfs = cfs

====
